---- MODULE Spec2Model ----
(***************************************************************************)
(* The event-sourced audit store of the task backend: the audit_log table  *)
(* written by audit_service.log_action, the reconstruction and restore     *)
(* operations of services/event_store.py, and the task operations of       *)
(* routers/tasks.py that produce the records.  Request handlers run on a   *)
(* thread pool, so every handler is a sequence of steps, one per database  *)
(* statement or commit, and the steps of different workers interleave.     *)
(***************************************************************************)
EXTENDS Integers, Sequences, FiniteSets, TLC

\* ------------------------------------------------------------------ bounds
MaxClock == 2
MaxRequests == 3
MaxLater == 2
MaxEdits == 1
MaxTasks == 2
UsecPerSec == 2
Workers == {1, 2}
Titles == {"A", "B"}
NewTitles == {"A"}

VARIABLES
    clock,            \* the wall clock read by datetime.now()
    audit_log,        \* the audit_log table, in id order
    db,               \* the live tables: table name -> id -> row or NULL
    sqlite_sequence,  \* AUTOINCREMENT high-water mark of each live table
    proc,             \* per worker: the request it runs, its position and locals
    restore_commits,  \* number of restore writes committed to a live table
    budget            \* number of mutating requests still to arrive

vars == <<clock, audit_log, db, sqlite_sequence, proc, restore_commits, budget>>

\* ------------------------------------------------------------------ values
\* Python None and SQL NULL.
NULL == [null |-> TRUE]

\* Python truthiness of None, a dict or a str (`if old_value`, `if row[...]`).
Truthy(v) == v # NULL /\ DOMAIN v # {}

\* json.dumps / json.loads: the stored TEXT is a string, never a dict.
json_dumps(d) == [json |-> d]
json_loads(s) == s.json

\* datetime.isoformat(): the fraction is omitted when the microsecond is 0.
isoformat(c) ==
    IF c % UsecPerSec = 0 THEN <<c \div UsecPerSec>>
    ELSE <<c \div UsecPerSec, c % UsecPerSec>>

\* SQLite's TEXT comparison a <= b (memcmp, a proper prefix sorts first).
RECURSIVE TextLE(_, _)
TextLE(a, b) ==
    IF a = <<>> THEN TRUE
    ELSE IF b = <<>> THEN FALSE
    ELSE IF Head(a) # Head(b) THEN Head(a) < Head(b)
    ELSE TextLE(Tail(a), Tail(b))

Timestamps == {isoformat(c) : c \in 0..MaxClock}

\* k.startswith("_") over the keys that occur in a state.
StartsWithUnderscore(k) == k \in {"_deleted", "_deleted_at"}

\* The columns of the tasks table kept by the model.
Columns == {"id", "title"}

TaskIds == 1..MaxTasks
ProjectIds == {1}
Tables == {"tasks", "projects", "incidents", "monitors"}

\* The columns of each restorable table kept by the model, and the column
\* each of them declares NOT NULL.
ColumnsOf(table) ==
    CASE table = "incidents" -> {"id", "monitor_id", "title", "status", "resolved_at"}
      [] table = "monitors" -> {"id", "name"}
      [] OTHER -> Columns

RequiredOf(table) == IF table = "monitors" THEN "name" ELSE "title"

\* The columns that hold NULL (None) until they are set; the model sets none.
NullableColumns == {"resolved_at"}

\* d[key] is None
IsNone(d, key) == key \in NullableColumns /\ d[key] = NULL

\* init_db: the projects table is seeded with one default project.
SeedProjects == [i \in ProjectIds |-> [id |-> i, name |-> "My Project"]]

\* Faulty variant: a conversion that leaves a field of the row out.
row_to_task_partial(row) == [title |-> row.title]

\* row_to_task(row)
row_to_task(row) == [id |-> row.id, title |-> row.title]

\* ------------------------------------------------------------------ locals
Idle ==
    [op |-> "none", pc |-> "done", entity_type |-> "task", entity_id |-> 0,
     title |-> "", at |-> <<>>, action |-> "", old_value |-> NULL,
     new_value |-> NULL, timestamp |-> <<>>, state |-> NULL, result |-> "none",
     lastrowid |-> 0, plan |-> ""]

\* What a worker holds once its request has ended: the operation and its
\* outcome; a restore also returns its target and the state it restored.
Done(p, res) ==
    IF p.op = "restore"
    THEN [Idle EXCEPT !.op = p.op, !.entity_type = p.entity_type,
                      !.entity_id = p.entity_id, !.at = p.at,
                      !.state = p.state, !.result = res]
    ELSE [Idle EXCEPT !.op = p.op, !.result = res]

\* A free worker takes the next mutating request, if one is still to arrive.
MayStart(w) == proc[w].pc = "done" /\ budget > 0 /\ budget' = budget - 1

\* A request that inserts a task may start only while the id bound leaves room.
MayInsert ==
    sqlite_sequence["tasks"]
      + Cardinality({v \in Workers : proc[v].pc = "write" /\ proc[v].op = "duplicate"})
      < MaxTasks

Init ==
    /\ clock = 0
    /\ audit_log = <<>>
    /\ db = [t \in Tables |->
                IF t = "projects" THEN SeedProjects ELSE [i \in TaskIds |-> NULL]]
    /\ sqlite_sequence = [t \in Tables |-> IF t = "projects" THEN 1 ELSE 0]
    /\ proc = [w \in Workers |-> Idle]
    /\ restore_commits = 0
    /\ budget = MaxRequests

\* ------------------------------------------------------------------ clock
Tick ==
    /\ clock < MaxClock
    /\ clock' = clock + 1
    /\ UNCHANGED <<audit_log, db, sqlite_sequence, proc, restore_commits, budget>>

\* ------------------------------------------------------------------ audit_service.log_action
\* Faulty variant: the two snapshots bound to each other's column.
AuditRowSwapped(id, entity_type, entity_id, action, old_value, new_value, timestamp) ==
    [id |-> id, entity_type |-> entity_type, entity_id |-> entity_id,
     action |-> action,
     old_value |-> IF Truthy(new_value) THEN json_dumps(new_value) ELSE NULL,
     new_value |-> IF Truthy(old_value) THEN json_dumps(old_value) ELSE NULL,
     timestamp |-> timestamp]

\* The row of one INSERT INTO audit_log: a falsy snapshot is stored as NULL.
AuditRow(id, entity_type, entity_id, action, old_value, new_value, timestamp) ==
    [id |-> id, entity_type |-> entity_type, entity_id |-> entity_id,
     action |-> action,
     old_value |-> IF Truthy(old_value) THEN json_dumps(old_value) ELSE NULL,
     new_value |-> IF Truthy(new_value) THEN json_dumps(new_value) ELSE NULL,
     timestamp |-> timestamp]

\* Faulty variant: INSERT OR REPLACE under the id of the newest row.
InsertAuditLogReplace(log, row) ==
    IF log = <<>> THEN <<[row EXCEPT !.id = 1]>>
    ELSE [log EXCEPT ![Len(log)] = [row EXCEPT !.id = Len(log)]]

\* INSERT INTO audit_log: the id is AUTOINCREMENT, no row is ever removed.
InsertAuditLog(log, row) == Append(log, [row EXCEPT !.id = Len(log) + 1])

\* Faulty variant: last_insert_rowid() asked of a connection that inserted nothing.
lastrowidOtherConnection(log) == 0

\* cursor.lastrowid, read after the connection's own INSERT.
lastrowid(log) == log[Len(log)].id

\* The arguments of the INSERT are evaluated: datetime.now().isoformat().
LogStamp(w) ==
    /\ proc[w].pc = "log"
    /\ proc' = [proc EXCEPT ![w].pc = "insert", ![w].timestamp = isoformat(clock)]
    /\ UNCHANGED <<clock, audit_log, db, sqlite_sequence, restore_commits, budget>>

\* conn.execute(INSERT); conn.commit(); the handler then returns.
LogInsert(w) ==
    /\ proc[w].pc = "insert"
    /\ audit_log' = InsertAuditLog(audit_log,
                        AuditRow(0, proc[w].entity_type, proc[w].entity_id,
                                 proc[w].action, proc[w].old_value,
                                 proc[w].new_value, proc[w].timestamp))
    /\ proc' = [proc EXCEPT ![w] = [Done(proc[w], "ok") EXCEPT
                                       !.lastrowid = lastrowid(audit_log')]]
    /\ UNCHANGED <<clock, db, sqlite_sequence, restore_commits, budget>>

\* Faulty variant: the storage error is caught inside log_action, which returns
\* as if nothing had happened.
LogRaiseSwallowed(w) ==
    /\ proc[w].pc = "insert"
    /\ proc' = [proc EXCEPT ![w] = Done(proc[w], "ok")]
    /\ UNCHANGED <<clock, audit_log, db, sqlite_sequence, restore_commits, budget>>

\* conn.execute(INSERT) or conn.commit() raises sqlite3.Error (database locked,
\* disk full): get_db closes the connection, which discards the uncommitted
\* row, and the exception leaves log_action and its caller, which has no
\* handler for it.
LogRaise(w) ==
    /\ proc[w].pc = "insert"
    /\ proc' = [proc EXCEPT ![w] = Done(proc[w], "500")]
    /\ UNCHANGED <<clock, audit_log, db, sqlite_sequence, restore_commits, budget>>

\* ------------------------------------------------------------------ EventStore.get_state_at
\* Faulty variant: the bound of the WHERE clause taken strictly (timestamp < ?).
MatchingStrict(log, entity_type, entity_id, at_timestamp) ==
    {i \in 1..Len(log) :
        /\ log[i].entity_type = entity_type
        /\ log[i].entity_id = entity_id
        /\ TextLE(log[i].timestamp, at_timestamp)
        /\ log[i].timestamp # at_timestamp}

\* WHERE entity_type = ? AND entity_id = ? AND timestamp <= ?
Matching(log, entity_type, entity_id, at_timestamp) ==
    {i \in 1..Len(log) :
        /\ log[i].entity_type = entity_type
        /\ log[i].entity_id = entity_id
        /\ TextLE(log[i].timestamp, at_timestamp)}

\* ORDER BY timestamp DESC LIMIT 1: the rows fetchone() may return.  SQL leaves
\* the order of rows with equal timestamps open, so each of them is an outcome.
FirstRows(log, entity_type, entity_id, at_timestamp) ==
    LET m == Matching(log, entity_type, entity_id, at_timestamp)
    IN  {i \in m : \A j \in m : TextLE(log[j].timestamp, log[i].timestamp)}

\* Faulty variant: the marker without the time of the deletion.
TombstoneUnstamped(state, timestamp) ==
    [k \in DOMAIN state \cup {"_deleted"} |-> IF k = "_deleted" THEN TRUE ELSE state[k]]

\* state["_deleted"] = True; state["_deleted_at"] = row["timestamp"]
Tombstone(state, timestamp) ==
    [k \in DOMAIN state \cup {"_deleted", "_deleted_at"} |->
        IF k = "_deleted" THEN TRUE
        ELSE IF k = "_deleted_at" THEN timestamp
        ELSE state[k]]

\* The state get_state_at builds from the fetched row.
StateOfRow(row) ==
    IF row.action = "delete"
    THEN LET state == IF Truthy(row.old_value) THEN json_loads(row.old_value) ELSE NULL
         IN  IF Truthy(state) THEN Tombstone(state, row.timestamp) ELSE state
    ELSE IF Truthy(row.new_value) THEN json_loads(row.new_value) ELSE NULL

\* Every value get_state_at may return on this log.
get_state_at(log, entity_type, entity_id, at_timestamp) ==
    LET first == FirstRows(log, entity_type, entity_id, at_timestamp)
    IN  IF first = {} THEN {NULL} ELSE {StateOfRow(log[i]) : i \in first}

\* Faulty variant: the request leaves a record of the access in the log.
GetStateAtRecorded(w, entity_id, at_timestamp) ==
    /\ proc[w].pc = "done"
    /\ \E state \in get_state_at(audit_log, "task", entity_id, at_timestamp) :
         proc' = [proc EXCEPT ![w] =
                    [Idle EXCEPT !.op = "state_at", !.entity_id = entity_id,
                                 !.at = at_timestamp, !.state = state,
                                 !.result = IF state = NULL THEN "404" ELSE "ok"]]
    /\ audit_log' = InsertAuditLog(audit_log,
                        AuditRow(0, "task", entity_id, "read", NULL, NULL,
                                 isoformat(clock)))
    /\ UNCHANGED <<clock, db, sqlite_sequence, restore_commits, budget>>

\* routers/events.py: GET /{entity_type}/{entity_id}/state-at
GetStateAt(w, entity_id, at_timestamp) ==
    /\ proc[w].pc = "done"
    /\ \E state \in get_state_at(audit_log, "task", entity_id, at_timestamp) :
         proc' = [proc EXCEPT ![w] =
                    [Idle EXCEPT !.op = "state_at", !.entity_id = entity_id,
                                 !.at = at_timestamp, !.state = state,
                                 !.result = IF state = NULL THEN "404" ELSE "ok"]]
    /\ UNCHANGED <<clock, audit_log, db, sqlite_sequence, restore_commits, budget>>

\* ------------------------------------------------------------------ EventStore.get_entity_history
\* WHERE entity_type = ? AND entity_id = ? ORDER BY timestamp ASC: every order
\* of the entity's rows the query may return (equal timestamps in any order).
get_entity_history(log, entity_type, entity_id) ==
    LET rows == {i \in 1..Len(log) :
                    log[i].entity_type = entity_type /\ log[i].entity_id = entity_id}
        n == Cardinality(rows)
    IN  {h \in [1..n -> rows] :
            /\ \A a, b \in 1..n : a # b => h[a] # h[b]
            /\ \A a, b \in 1..n : a < b => TextLE(log[h[a]].timestamp, log[h[b]].timestamp)}

\* ------------------------------------------------------------------ query plans
\* The statements of event_store.py order by timestamp alone.  Rows with equal
\* timestamps come in the order the query plan visits them, by ascending or by
\* descending rowid; the same statement on an unchanged table uses the same plan.
Plans == {"rowid_asc", "rowid_desc"}

\* Row i is visited before row j among rows of equal timestamp.
VisitedFirst(i, j, plan) == IF plan = "rowid_asc" THEN i <= j ELSE i >= j

\* fetchone() of get_state_at's query under a plan: the row index, 0 for no row.
FetchOne(log, entity_type, entity_id, at_timestamp, plan) ==
    LET first == FirstRows(log, entity_type, entity_id, at_timestamp)
    IN  IF first = {} THEN 0
        ELSE CHOOSE i \in first : \A j \in first : VisitedFirst(i, j, plan)

\* get_state_at under a plan.
state_at(log, entity_type, entity_id, at_timestamp, plan) ==
    LET i == FetchOne(log, entity_type, entity_id, at_timestamp, plan)
    IN  IF i = 0 THEN NULL ELSE StateOfRow(log[i])

\* A diff or replay request is taken by a free worker.  The answer it leaves in
\* the worker changes nothing a later request reads, so a diff or replay taken
\* directly after another one reaches no state that is not reached without
\* the first; such steps are left out.
MayQuery(w) ==
    proc[w].pc = "done" /\ proc[w].op \notin {"diff", "replay", "history", "feed"}

\* ------------------------------------------------------------------ EventStore.diff_states
\* (state or {})
OrEmpty(state) == IF Truthy(state) THEN state ELSE <<>>

\* dict.get(key): the value, None when the key is absent (and None when the
\* key holds None).
DictGet(d, key) ==
    IF key \notin DOMAIN d THEN NULL
    ELSE IF IsNone(d, key) THEN NULL
    ELSE [value |-> d[key]]

\* Faulty variant: only the keys of the first state are compared.
ChangesOfFirstKeys(state1, state2) ==
    LET d1 == OrEmpty(state1)
        d2 == OrEmpty(state2)
    IN  [key \in {k \in DOMAIN d1 : DictGet(d1, k) # DictGet(d2, k)} |->
            [from |-> DictGet(d1, key), to |-> DictGet(d2, key)]]

\* The loop over all_keys: a key is a change when its two values differ.
Changes(state1, state2) ==
    LET d1 == OrEmpty(state1)
        d2 == OrEmpty(state2)
        all_keys == DOMAIN d1 \cup DOMAIN d2
    IN  [key \in {k \in all_keys : DictGet(d1, k) # DictGet(d2, k)} |->
            [from |-> DictGet(d1, key), to |-> DictGet(d2, key)]]

\* Faulty variant: the error is raised as soon as one of the states is missing.
DiffResultStrict(entity_id, timestamp1, timestamp2, state1, state2) ==
    IF ~Truthy(state1) \/ ~Truthy(state2)
    THEN [error |-> "Entity not found at either timestamp"]
    ELSE [entity_id |-> entity_id, timestamp1 |-> timestamp1, timestamp2 |-> timestamp2,
          state_at_t1 |-> state1, state_at_t2 |-> state2,
          changes |-> Changes(state1, state2)]

\* The value diff_states returns for the two reconstructed states.
DiffResult(entity_id, timestamp1, timestamp2, state1, state2) ==
    IF ~Truthy(state1) /\ ~Truthy(state2)
    THEN [error |-> "Entity not found at either timestamp"]
    ELSE [entity_id |-> entity_id, timestamp1 |-> timestamp1, timestamp2 |-> timestamp2,
          state_at_t1 |-> state1, state_at_t2 |-> state2,
          changes |-> Changes(state1, state2)]

\* Faulty variant: the second state is read in the other order of equal
\* timestamps than the first.
diff_statesTwoReads(log, entity_type, entity_id, timestamp1, timestamp2, plan) ==
    DiffResult(entity_id, timestamp1, timestamp2,
               state_at(log, entity_type, entity_id, timestamp1, plan),
               state_at(log, entity_type, entity_id, timestamp2,
                        CHOOSE other \in Plans : other # plan))

\* state1 and state2 are read by the same statement from the same table.
diff_states(log, entity_type, entity_id, timestamp1, timestamp2, plan) ==
    DiffResult(entity_id, timestamp1, timestamp2,
               state_at(log, entity_type, entity_id, timestamp1, plan),
               state_at(log, entity_type, entity_id, timestamp2, plan))

\* routers/events.py: GET /{entity_type}/{entity_id}/diff
DiffOf(w, entity_type, entity_id, timestamp1, timestamp2) ==
    /\ MayQuery(w)
    /\ \E plan \in Plans :
         proc' = [proc EXCEPT ![w] =
                    [Idle EXCEPT !.op = "diff", !.entity_type = entity_type,
                                 !.entity_id = entity_id,
                                 !.state = diff_states(audit_log, entity_type, entity_id,
                                                       timestamp1, timestamp2, plan),
                                 !.result = "ok"]]
    /\ UNCHANGED <<clock, audit_log, db, sqlite_sequence, restore_commits, budget>>

\* The diff of a task.
Diff(w, entity_id, timestamp1, timestamp2) ==
    DiffOf(w, "task", entity_id, timestamp1, timestamp2)

\* The diff route next to other workers.  Each get_state_at opens its own
\* connection, so the two reads are two steps: state1 = get_state_at(...,
\* timestamp1) is read first.
DiffFirst(w, entity_id, timestamp1, timestamp2) ==
    /\ proc[w].pc = "done"
    /\ \E plan \in Plans :
         proc' = [proc EXCEPT ![w] =
                    [Idle EXCEPT !.op = "diff", !.pc = "state2",
                                 !.entity_id = entity_id,
                                 !.at = timestamp1, !.timestamp = timestamp2,
                                 !.plan = plan,
                                 !.state = state_at(audit_log, "task", entity_id,
                                                    timestamp1, plan)]]
    /\ UNCHANGED <<clock, audit_log, db, sqlite_sequence, restore_commits, budget>>

\* state2 = get_state_at(..., timestamp2), read by the same statement under the
\* same plan; the comparison and the answer.
DiffSecond(w) ==
    /\ proc[w].pc = "state2"
    /\ LET p == proc[w]
           state2 == state_at(audit_log, "task", p.entity_id, p.timestamp, p.plan)
       IN  proc' = [proc EXCEPT ![w] =
                        [Idle EXCEPT !.op = "diff", !.entity_id = p.entity_id,
                                     !.state = DiffResult(p.entity_id, p.at, p.timestamp,
                                                          p.state, state2),
                                     !.result = "ok"]]
    /\ UNCHANGED <<clock, audit_log, db, sqlite_sequence, restore_commits, budget>>

\* ------------------------------------------------------------------ EventStore.replay_events
\* The rows of S in the order of ORDER BY timestamp ASC under a plan.
RECURSIVE Ordered(_, _, _)
Ordered(log, S, plan) ==
    IF S = {} THEN <<>>
    ELSE LET i == CHOOSE x \in S : \A y \in S :
                     /\ TextLE(log[x].timestamp, log[y].timestamp)
                     /\ log[x].timestamp = log[y].timestamp => VisitedFirst(x, y, plan)
         IN  <<i>> \o Ordered(log, S \ {i}, plan)

\* One dict of the list get_entity_history returns.
HistoryEvent(row) ==
    [id |-> row.id, action |-> row.action,
     old_value |-> IF Truthy(row.old_value) THEN json_loads(row.old_value) ELSE NULL,
     new_value |-> IF Truthy(row.new_value) THEN json_loads(row.new_value) ELSE NULL,
     timestamp |-> row.timestamp]

\* history = self.get_entity_history(entity_type, entity_id), under a plan.
History(log, entity_type, entity_id, plan) ==
    LET rows == {i \in 1..Len(log) :
                    log[i].entity_type = entity_type /\ log[i].entity_id = entity_id}
        order == Ordered(log, rows, plan)
    IN  [n \in 1..Len(order) |-> HistoryEvent(log[order[n]])]

\* routers/events.py: GET /{entity_type}/{entity_id}/history
EntityHistory(w, entity_id) ==
    /\ MayQuery(w)
    /\ \E plan \in Plans :
         LET history == History(audit_log, "task", entity_id, plan)
         IN  proc' = [proc EXCEPT ![w] =
                        IF history = <<>>
                        THEN [Idle EXCEPT !.op = "history", !.entity_id = entity_id,
                                          !.result = "404"]
                        ELSE [Idle EXCEPT
                                !.op = "history", !.entity_id = entity_id,
                                !.state = [event_count |-> Len(history),
                                           first_event |-> history[1].timestamp,
                                           last_event |-> history[Len(history)].timestamp,
                                           events |-> history],
                                !.result = "ok"]]
    /\ UNCHANGED <<clock, audit_log, db, sqlite_sequence, restore_commits, budget>>

\* state.update(event["new_value"])
DictUpdate(state, new_value) ==
    [k \in DOMAIN state \cup DOMAIN new_value |->
        IF k \in DOMAIN new_value THEN new_value[k] ELSE state[k]]

\* state["_deleted"] = True
SetDeleted(state) ==
    [k \in DOMAIN state \cup {"_deleted"} |-> IF k = "_deleted" THEN TRUE ELSE state[k]]

\* Faulty variant: every action other than 'create' replaces nothing and merges
\* nothing, the running state is only ever set by 'create'.
ApplyEventCreateOnly(state, event) ==
    IF event.action = "create" THEN OrEmpty(event.new_value) ELSE state

\* The running state after one event of the loop.
ApplyEvent(state, event) ==
    IF event.action = "create" THEN OrEmpty(event.new_value)
    ELSE IF event.action = "update"
         THEN IF Truthy(event.new_value) THEN DictUpdate(state, event.new_value) ELSE state
    ELSE IF event.action = "delete" THEN SetDeleted(state)
    ELSE state

\* until and event["timestamp"] > until
PastUntil(event, until) == until # NULL /\ ~TextLE(event.timestamp, until.text)

\* The generator after n events of the history: the pairs yielded so far as
\* the consumer now holds them, the running state, and which yielded event's
\* new_value is the very dict object the running state is (0 for none).  After
\* `state = event["new_value"]` the update and delete branches modify that
\* object in place; state_after is a copy and is not affected.
RECURSIVE replay_loop(_, _, _)
replay_loop(history, until, n) ==
    IF n = 0 THEN [pairs |-> <<>>, state |-> <<>>, alias |-> 0, stopped |-> FALSE]
    ELSE LET acc == replay_loop(history, until, n - 1)
             event == history[n]
         IN  IF acc.stopped \/ PastUntil(event, until)
             THEN [acc EXCEPT !.stopped = TRUE]
             ELSE LET state == ApplyEvent(acc.state, event)
                      alias == IF event.action # "create" THEN acc.alias
                               ELSE IF Truthy(event.new_value) THEN n ELSE 0
                      held == [k \in 1..Len(acc.pairs) |->
                                 IF k = alias
                                 THEN [acc.pairs[k] EXCEPT !.event.new_value = state]
                                 ELSE acc.pairs[k]]
                  IN  [pairs |-> Append(held, [event |-> event, state_after |-> state]),
                       state |-> state, alias |-> alias, stopped |-> FALSE]

\* Faulty variant: only the records of the three canonical actions are
\* replayed, the others yield nothing.
replay_eventsOfCanonical(log, entity_type, entity_id, until, plan) ==
    LET history == SelectSeq(History(log, entity_type, entity_id, plan),
                             LAMBDA event : event.action \in {"create", "update", "delete"})
    IN  replay_loop(history, until, Len(history)).pairs

\* list(replay_events(entity_type, entity_id, until)) under a plan.
replay_events(log, entity_type, entity_id, until, plan) ==
    LET history == History(log, entity_type, entity_id, plan)
    IN  replay_loop(history, until, Len(history)).pairs

\* The bounds a replay request may carry: none, or a timestamp.
Untils == {NULL} \cup {[text |-> t] : t \in Timestamps}

\* routers/events.py: GET /{entity_type}/{entity_id}/replay
Replay(w, entity_id, until) ==
    /\ MayQuery(w)
    /\ \E plan \in Plans :
         LET events == replay_events(audit_log, "task", entity_id, until, plan)
         IN  proc' = [proc EXCEPT ![w] =
                        IF events = <<>>
                        THEN [Idle EXCEPT !.op = "replay", !.entity_id = entity_id,
                                          !.result = "404"]
                        ELSE [Idle EXCEPT
                                !.op = "replay", !.entity_id = entity_id,
                                !.state = [until |-> until,
                                           replayed_events |-> Len(events),
                                           final_state |-> events[Len(events)].state_after,
                                           replay |-> events],
                                !.result = "ok"]]
    /\ UNCHANGED <<clock, audit_log, db, sqlite_sequence, restore_commits, budget>>

\* ------------------------------------------------------------------ EventStore.get_activity_feed
\* data.get("title") or data.get("name") or f"#{entity_id}"
NameOf(data, entity_id) ==
    IF "title" \in DOMAIN data /\ data.title # "" THEN [text |-> data.title]
    ELSE IF "name" \in DOMAIN data /\ data.name # "" THEN [text |-> data.name]
    ELSE [number |-> entity_id]

\* action_verbs.get(action, action)
action_verbs(action) ==
    CASE action = "create" -> "created"
      [] action = "update" -> "updated"
      [] action = "delete" -> "deleted"
      [] action = "restore" -> "restored"
      [] OTHER -> action

\* Faulty variant: the name is looked for in new_value only.
generate_summaryOfNewValue(row) ==
    [entity |-> row.entity_type,
     name |-> IF Truthy(row.new_value) THEN NameOf(json_loads(row.new_value), row.entity_id)
              ELSE [number |-> row.entity_id],
     verb |-> action_verbs(row.action)]

\* _generate_summary(row): the entity, the name and the verb of the sentence.
generate_summary(row) ==
    [entity |-> row.entity_type,
     name |-> IF Truthy(row.new_value) THEN NameOf(json_loads(row.new_value), row.entity_id)
              ELSE IF Truthy(row.old_value)
                   THEN NameOf(json_loads(row.old_value), row.entity_id)
              ELSE [number |-> row.entity_id],
     verb |-> action_verbs(row.action)]

\* The rows of S in the order of ORDER BY timestamp DESC under a plan.
RECURSIVE OrderedDesc(_, _, _)
OrderedDesc(log, S, plan) ==
    IF S = {} THEN <<>>
    ELSE LET i == CHOOSE x \in S : \A y \in S :
                     /\ TextLE(log[y].timestamp, log[x].timestamp)
                     /\ log[x].timestamp = log[y].timestamp => VisitedFirst(x, y, plan)
         IN  <<i>> \o OrderedDesc(log, S \ {i}, plan)

\* LIMIT ?: the first rows of the order; SQLite reads a negative LIMIT as no
\* limit at all.
Limited(order, limit) ==
    IF limit < 0 \/ limit >= Len(order) THEN order
    ELSE SubSeq(order, 1, limit)

\* get_activity_feed(limit, entity_types) under a plan; entity_types is None
\* or a list, and an empty list filters nothing.
get_activity_feed(log, limit, entity_types, plan) ==
    LET rows == {i \in 1..Len(log) :
                    (entity_types # NULL /\ entity_types.list # {}) =>
                        log[i].entity_type \in entity_types.list}
        order == Limited(OrderedDesc(log, rows, plan), limit)
    IN  [n \in 1..Len(order) |->
            [id |-> log[order[n]].id, entity_type |-> log[order[n]].entity_type,
             entity_id |-> log[order[n]].entity_id, action |-> log[order[n]].action,
             timestamp |-> log[order[n]].timestamp,
             summary |-> generate_summary(log[order[n]])]]

\* limit: int = Query(50, le=200): any integer up to the maximum is accepted.
Limits == {-1, 0, 1, 2}

\* The largest limit the route accepts.
MaxLimit == 200

\* entity_types.split(",") if entity_types else None
TypeFilters ==
    {NULL} \cup {[list |-> types] : types \in {{"task"}, {"project"}, {"task", "project"}}}

\* routers/events.py: GET /feed
Feed(w, limit, entity_types) ==
    /\ MayQuery(w)
    /\ \E plan \in Plans :
         proc' = [proc EXCEPT ![w] =
                    [Idle EXCEPT !.op = "feed",
                                 !.state = [limit |-> limit, entity_types |-> entity_types,
                                            feed |-> get_activity_feed(audit_log, limit,
                                                                       entity_types, plan)],
                                 !.result = "ok"]]
    /\ UNCHANGED <<clock, audit_log, db, sqlite_sequence, restore_commits, budget>>

\* ------------------------------------------------------------------ routers/tasks.py
Begin(op, entity_id) ==
    [Idle EXCEPT !.op = op, !.entity_id = entity_id, !.action = op]

\* create_task: INSERT INTO tasks; commit; task_id = lastrowid.
CreateInsert(w, title) ==
    /\ MayStart(w)
    /\ MayInsert
    /\ LET id == sqlite_sequence["tasks"] + 1
       IN  /\ db' = [db EXCEPT !["tasks"][id] = [id |-> id, title |-> title]]
           /\ sqlite_sequence' = [sqlite_sequence EXCEPT !["tasks"] = id]
           /\ proc' = [proc EXCEPT ![w] =
                         [Begin("create", id) EXCEPT !.pc = "readback"]]
    /\ UNCHANGED <<clock, audit_log, restore_commits>>

\* SELECT * FROM tasks WHERE id = ?; result = row_to_task(row).  A row deleted
\* in the meantime makes row_to_task(None) raise, and nothing is logged.
ReadBack(w) ==
    /\ proc[w].pc = "readback"
    /\ LET row == db["tasks"][proc[w].entity_id]
       IN  proc' = [proc EXCEPT ![w] =
                      IF row = NULL THEN Done(proc[w], "500")
                      ELSE [proc[w] EXCEPT
                              !.pc = "log",
                              !.new_value = IF proc[w].op = "duplicate" THEN NULL
                                            ELSE row_to_task(row)]]
    /\ UNCHANGED <<clock, audit_log, db, sqlite_sequence, restore_commits, budget>>

\* update_task, delete_task, duplicate_task: SELECT the row, 404 when absent.
SelectExisting(w, op, entity_id, title) ==
    /\ MayStart(w)
    /\ LET existing == db["tasks"][entity_id]
       IN  proc' = [proc EXCEPT ![w] =
                      IF existing = NULL
                      THEN Done(Begin(op, entity_id), "404")
                      ELSE [Begin(op, entity_id) EXCEPT
                              !.pc = "write", !.title = title,
                              !.old_value = row_to_task(existing)]]
    /\ UNCHANGED <<clock, audit_log, db, sqlite_sequence, restore_commits>>

UpdateSelect(w, entity_id, title) == SelectExisting(w, "update", entity_id, title)

\* UPDATE tasks SET title = ? WHERE id = ?; commit.
UpdateWrite(w) ==
    /\ proc[w].pc = "write" /\ proc[w].op = "update"
    /\ LET id == proc[w].entity_id
       IN  db' = IF db["tasks"][id] = NULL THEN db
                 ELSE [db EXCEPT !["tasks"][id].title = proc[w].title]
    /\ proc' = [proc EXCEPT ![w].pc = "readback"]
    /\ UNCHANGED <<clock, audit_log, sqlite_sequence, restore_commits, budget>>

DeleteSelect(w, entity_id) == SelectExisting(w, "delete", entity_id, "")

\* DELETE FROM tasks WHERE id = ?; commit.
DeleteWrite(w) ==
    /\ proc[w].pc = "write" /\ proc[w].op = "delete"
    /\ db' = [db EXCEPT !["tasks"][proc[w].entity_id] = NULL]
    /\ proc' = [proc EXCEPT ![w].pc = "log"]
    /\ UNCHANGED <<clock, audit_log, sqlite_sequence, restore_commits, budget>>

\* duplicate_task needs a fresh id for its copy.
DuplicateSelect(w, entity_id) ==
    /\ MayInsert
    /\ SelectExisting(w, "duplicate", entity_id, "")

\* INSERT INTO tasks (title, ...) VALUES (title || " (Copy)", ...); commit.  The
\* record is written for the copy, with old_value = {"source_id": task_id}.
DuplicateInsert(w) ==
    /\ proc[w].pc = "write" /\ proc[w].op = "duplicate"
    /\ LET id == sqlite_sequence["tasks"] + 1
       IN  /\ db' = [db EXCEPT !["tasks"][id] =
                       [id |-> id, title |-> proc[w].old_value.title \o " (Copy)"]]
           /\ sqlite_sequence' = [sqlite_sequence EXCEPT !["tasks"] = id]
           /\ proc' = [proc EXCEPT ![w].pc = "readback", ![w].entity_id = id,
                                   ![w].old_value = [source_id |-> proc[w].entity_id]]
    /\ UNCHANGED <<clock, audit_log, restore_commits, budget>>

\* ------------------------------------------------------------------ routers/projects.py
\* row_to_project(row)
row_to_project(row) == [id |-> row.id, name |-> row.name]

\* delete_project: SELECT the project, 404 when absent.
ProjectSelect(w, project_id) ==
    /\ MayStart(w)
    /\ LET existing == db["projects"][project_id]
           p == [Begin("delete_project", project_id) EXCEPT
                   !.entity_type = "project", !.action = "delete"]
       IN  proc' = [proc EXCEPT ![w] =
                      IF existing = NULL THEN Done(p, "404")
                      ELSE [p EXCEPT !.pc = "cascade",
                                     !.old_value = row_to_project(existing)]]
    /\ UNCHANGED <<clock, audit_log, db, sqlite_sequence, restore_commits>>

\* DELETE FROM tasks WHERE project_id = ?; DELETE FROM projects WHERE id = ?;
\* commit.  Every task is created in the default project, project 1.
ProjectCascade(w) ==
    /\ proc[w].pc = "cascade"
    /\ db' = [db EXCEPT
                !["tasks"] = IF proc[w].entity_id = 1 THEN [i \in TaskIds |-> NULL] ELSE @,
                !["projects"][proc[w].entity_id] = NULL]
    /\ proc' = [proc EXCEPT ![w].pc = "log"]
    /\ UNCHANGED <<clock, audit_log, sqlite_sequence, restore_commits, budget>>

\* update_project: SELECT the project, 404 when absent; UPDATE projects SET
\* name = ?; commit; SELECT the row again for the record.
ProjectUpdate(w, project_id, name) ==
    /\ MayStart(w)
    /\ LET existing == db["projects"][project_id]
           p == [Begin("update_project", project_id) EXCEPT
                   !.entity_type = "project", !.action = "update"]
           row == [existing EXCEPT !.name = name]
       IN  IF existing = NULL
           THEN /\ proc' = [proc EXCEPT ![w] = Done(p, "404")]
                /\ UNCHANGED db
           ELSE /\ db' = [db EXCEPT !["projects"][project_id] = row]
                /\ proc' = [proc EXCEPT ![w] =
                              [p EXCEPT !.pc = "log",
                                        !.old_value = row_to_project(existing),
                                        !.new_value = row_to_project(row)]]
    /\ UNCHANGED <<clock, audit_log, sqlite_sequence, restore_commits>>

\* ------------------------------------------------------------------ routers/monitors.py
row_to_monitor(row) == [id |-> row.id, name |-> row.name]

\* delete_monitor: SELECT the row, 404 when absent.
MonitorSelect(w, monitor_id) ==
    /\ MayStart(w)
    /\ LET existing == db["monitors"][monitor_id]
           p == [Begin("delete_monitor", monitor_id) EXCEPT
                   !.entity_type = "monitor", !.action = "delete"]
       IN  proc' = [proc EXCEPT ![w] =
                      IF existing = NULL THEN Done(p, "404")
                      ELSE [p EXCEPT !.pc = "cascade",
                                     !.old_value = row_to_monitor(existing)]]
    /\ UNCHANGED <<clock, audit_log, db, sqlite_sequence, restore_commits>>

\* DELETE FROM incidents WHERE monitor_id = ?; DELETE FROM monitors WHERE
\* id = ?; commit.
MonitorCascade(w) ==
    /\ proc[w].pc = "cascade" /\ proc[w].op = "delete_monitor"
    /\ db' = [db EXCEPT
                !["incidents"] =
                    [i \in DOMAIN @ |->
                       IF @[i] # NULL /\ @[i].monitor_id = proc[w].entity_id
                       THEN NULL ELSE @[i]],
                !["monitors"][proc[w].entity_id] = NULL]
    /\ proc' = [proc EXCEPT ![w].pc = "log"]
    /\ UNCHANGED <<clock, audit_log, sqlite_sequence, restore_commits, budget>>

\* ------------------------------------------------------------------ routers/incidents.py
\* row_to_incident(row)
row_to_incident(row) ==
    [id |-> row.id, monitor_id |-> row.monitor_id, title |-> row.title,
     status |-> row.status, resolved_at |-> row.resolved_at]

\* acknowledge_incident: SELECT the incident, 404 when absent, 400 when it is
\* resolved; UPDATE incidents SET status = 'acknowledged'; commit; SELECT the
\* row again for the record.
Acknowledge(w, incident_id) ==
    /\ MayStart(w)
    /\ LET existing == db["incidents"][incident_id]
           p == [Begin("acknowledge", incident_id) EXCEPT !.entity_type = "incident"]
           row == [existing EXCEPT !.status = "acknowledged"]
       IN  IF existing = NULL
           THEN /\ proc' = [proc EXCEPT ![w] = Done(p, "404")]
                /\ UNCHANGED db
           ELSE IF existing.status = "resolved"
           THEN /\ proc' = [proc EXCEPT ![w] = Done(p, "400")]
                /\ UNCHANGED db
           ELSE /\ db' = [db EXCEPT !["incidents"][incident_id] = row]
                /\ proc' = [proc EXCEPT ![w] =
                              [p EXCEPT !.pc = "log",
                                        !.old_value = row_to_incident(existing),
                                        !.new_value = row_to_incident(row)]]
    /\ UNCHANGED <<clock, audit_log, sqlite_sequence, restore_commits>>

\* ------------------------------------------------------------------ EventStore.restore_entity
ErrNotFound == "Cannot find entity state at specified timestamp"
ErrDeleted == "Entity was deleted at this timestamp"
ErrUnknownType == "Unknown entity type"

\* Faulty variant: the projects table is restorable too.
table_mapWithProjects == [task |-> "tasks", column |-> "columns", project |-> "projects",
                          monitor |-> "monitors", incident |-> "incidents"]

\* table_map: the live table of each restorable entity type.
table_map == [task |-> "tasks", column |-> "columns",
              monitor |-> "monitors", incident |-> "incidents"]

\* target_state.get("_deleted")
IsDeleted(state) == "_deleted" \in DOMAIN state /\ state["_deleted"] = TRUE

\* {k: v for k, v in target_state.items() if not k.startswith("_")}
StripInternal(state) ==
    [k \in {x \in DOMAIN state : ~StartsWithUnderscore(x)} |-> state[k]]

\* Faulty variant: the tombstone test left out.
RestoreCheckNoTombstone(target_state, entity_type) ==
    IF ~Truthy(target_state) THEN "Cannot find entity state at specified timestamp"
    ELSE IF entity_type \notin DOMAIN table_map THEN "Unknown entity type"
    ELSE "ok"

\* The early returns of restore_entity, in the order of the code.
RestoreCheck(target_state, entity_type) ==
    IF ~Truthy(target_state) THEN ErrNotFound
    ELSE IF IsDeleted(target_state) THEN ErrDeleted
    ELSE IF entity_type \notin DOMAIN table_map THEN ErrUnknownType
    ELSE "ok"

\* target_state = self.get_state_at(...) and the checks on it.
RestoreReadOf(w, entity_type, entity_id, to_timestamp) ==
    /\ MayStart(w)
    /\ \E target_state \in get_state_at(audit_log, entity_type, entity_id, to_timestamp) :
         LET p == [Begin("restore", entity_id) EXCEPT
                     !.entity_type = entity_type,
                     !.at = to_timestamp, !.state = target_state]
             check == RestoreCheck(target_state, entity_type)
         IN  proc' = [proc EXCEPT ![w] =
                        IF check = "ok"
                        THEN [p EXCEPT !.pc = "exists",
                                       !.new_value = StripInternal(target_state)]
                        ELSE Done(p, check)]
    /\ UNCHANGED <<clock, audit_log, db, sqlite_sequence, restore_commits>>

\* What the restore route answers for a result of restore_entity: the result
\* itself on success, HTTPException(status_code=400, detail=result["error"])
\* otherwise.
restore_response(result) ==
    IF result = "ok" THEN [status |-> "200"]
    ELSE [status |-> "400", detail |-> result]

\* POST /{entity_type}/{entity_id}/restore for a task.
RestoreRead(w, entity_id, to_timestamp) == RestoreReadOf(w, "task", entity_id, to_timestamp)

\* Faulty variant: the restored values are kept as the before snapshot of a
\* row that was found.
RestoreSelectRestored(w) ==
    /\ proc[w].pc = "exists"
    /\ proc' = [proc EXCEPT
                  ![w].pc = "write",
                  ![w].old_value =
                      IF db[table_map[proc[w].entity_type]][proc[w].entity_id] = NULL
                      THEN NULL ELSE proc[w].new_value]
    /\ UNCHANGED <<clock, audit_log, db, sqlite_sequence, restore_commits, budget>>

\* exists = SELECT * FROM {table} WHERE id = ?
RestoreSelect(w) ==
    /\ proc[w].pc = "exists"
    /\ proc' = [proc EXCEPT ![w].pc = "write",
                            ![w].old_value = db[table_map[proc[w].entity_type]][proc[w].entity_id]]
    /\ UNCHANGED <<clock, audit_log, db, sqlite_sequence, restore_commits, budget>>

\* The UPDATE (a row was seen) or INSERT (none was seen) of the restored values:
\* the rows of the table and its AUTOINCREMENT sequence after the statement, or
\* NULL when the statement raises.  An INSERT that names no id takes the next
\* id of the sequence.
WriteRestored(table, rows, sequence, exists, restore_data, entity_id) ==
    IF exists # NULL
    THEN LET fields == DOMAIN restore_data \ {"id"}
         IN  IF fields = {} \/ ~(fields \subseteq ColumnsOf(table)) THEN NULL
             ELSE [sequence |-> sequence,
                   rows |-> IF rows[entity_id] = NULL THEN rows
                            ELSE [rows EXCEPT ![entity_id] =
                                    [k \in DOMAIN @ |->
                                       IF k \in fields THEN restore_data[k] ELSE @[k]]]]
    ELSE LET id == IF "id" \in DOMAIN restore_data THEN restore_data.id
                   ELSE sequence + 1
         IN  IF \/ ~(DOMAIN restore_data \subseteq ColumnsOf(table))
                \/ RequiredOf(table) \notin DOMAIN restore_data
                \/ rows[id] # NULL
             THEN NULL
             ELSE [sequence |-> IF id > sequence THEN id ELSE sequence,
                   rows |-> [rows EXCEPT ![id] =
                               [k \in ColumnsOf(table) |->
                                  IF k \in DOMAIN restore_data THEN restore_data[k]
                                  ELSE IF k = "id" THEN id
                                  ELSE NULL]]]

\* An INSERT that takes the next id of the sequence may run only while the id
\* bound leaves room.
MayRestore(w) ==
    \/ proc[w].old_value # NULL
    \/ "id" \in DOMAIN proc[w].new_value
    \/ sqlite_sequence[table_map[proc[w].entity_type]] < MaxTasks

\* conn.execute(UPDATE | INSERT); conn.commit()
RestoreWrite(w) ==
    /\ proc[w].pc = "write" /\ proc[w].op = "restore"
    /\ MayRestore(w)
    /\ LET t == table_map[proc[w].entity_type]
           written == WriteRestored(t, db[t], sqlite_sequence[t], proc[w].old_value,
                                    proc[w].new_value, proc[w].entity_id)
       IN  IF written = NULL
           THEN /\ proc' = [proc EXCEPT ![w] = Done(proc[w], "500")]
                /\ UNCHANGED <<db, sqlite_sequence, restore_commits>>
           ELSE /\ db' = [db EXCEPT ![t] = written.rows]
                /\ sqlite_sequence' = [sqlite_sequence EXCEPT ![t] = written.sequence]
                /\ restore_commits' = restore_commits + 1
                /\ proc' = [proc EXCEPT ![w].pc = "log"]
    /\ UNCHANGED <<clock, audit_log, budget>>

\* ------------------------------------------------------------------ failures
\* The process dies (or the request is abandoned) between two steps of a
\* handler: what was committed stays, the rest of the handler never runs.
Crash(w) ==
    /\ proc[w].pc # "done"
    /\ proc' = [proc EXCEPT ![w] = Done([proc[w] EXCEPT !.state = NULL], "crashed")]
    /\ UNCHANGED <<clock, audit_log, db, sqlite_sequence, restore_commits, budget>>

\* ------------------------------------------------------------------ specifications
Step(w) ==
    \/ \E title \in NewTitles : CreateInsert(w, title)
    \/ \E id \in TaskIds, title \in Titles : UpdateSelect(w, id, title)
    \/ UpdateWrite(w)
    \/ \E id \in TaskIds : DeleteSelect(w, id)
    \/ DeleteWrite(w)
    \/ \E id \in TaskIds : DuplicateSelect(w, id)
    \/ DuplicateInsert(w)
    \/ ReadBack(w)
    \/ \E id \in TaskIds, at \in Timestamps : RestoreRead(w, id, at)
    \/ RestoreSelect(w)
    \/ RestoreWrite(w)
    \/ LogStamp(w)
    \/ LogInsert(w)
    \/ \E id \in TaskIds, at \in Timestamps : GetStateAt(w, id, at)

\* One request at a time, each handler running to completion.
Next ==
    \/ Tick
    \/ Step(1)

Spec == Init /\ [][Next]_vars

\* A store that already holds the history of task 1: created as "A", then
\* either updated to "B" or deleted.
StoredHistory(requests) ==
    /\ clock = 1
    /\ \E second \in {"update", "delete"} :
         LET a == [id |-> 1, title |-> "A"]
             b == [id |-> 1, title |-> "B"]
             created == InsertAuditLog(<<>>,
                            AuditRow(0, "task", 1, "create", NULL, a, isoformat(0)))
         IN  /\ audit_log = InsertAuditLog(created,
                                AuditRow(0, "task", 1, second, a,
                                         IF second = "update" THEN b ELSE NULL,
                                         isoformat(1)))
             /\ db = [t \in Tables |->
                        IF t = "projects" THEN SeedProjects
                        ELSE [i \in TaskIds |->
                                IF i = 1 /\ second = "update" THEN b ELSE NULL]]
    /\ sqlite_sequence = [t \in Tables |-> 1]
    /\ proc = [w \in Workers |-> Idle]
    /\ restore_commits = 0
    /\ budget = requests

InitHistory == StoredHistory(MaxLater)

\* The later life of the stored task, one request at a time.
SpecLife == InitHistory /\ [][Next]_vars

\* Two workers restoring task 1 concurrently; either may die between steps.
RestoreStep(w) ==
    \/ \E at \in Timestamps : RestoreRead(w, 1, at)
    \/ RestoreSelect(w)
    \/ RestoreWrite(w)
    \/ LogStamp(w)
    \/ LogInsert(w)

NextConc ==
    \/ Tick
    \/ \E w \in Workers : RestoreStep(w)
    \/ \E w \in Workers : Crash(w)

SpecConc == InitHistory /\ [][NextConc]_vars

\* The create, update and delete operations of routers/tasks.py.
TaskStep(w) ==
    \/ \E title \in NewTitles : CreateInsert(w, title)
    \/ \E id \in TaskIds, title \in Titles : UpdateSelect(w, id, title)
    \/ UpdateWrite(w)
    \/ \E id \in TaskIds : DeleteSelect(w, id)
    \/ DeleteWrite(w)
    \/ ReadBack(w)
    \/ LogStamp(w)
    \/ LogInsert(w)

\* One task request at a time; the process may die between two of its steps.
NextCrash ==
    \/ Tick
    \/ TaskStep(1)
    \/ Crash(1)

SpecCrash == Init /\ [][NextCrash]_vars

\* Task requests and the deletion of the project that holds the tasks.
ProjectStep(w) ==
    \/ \E project_id \in ProjectIds : ProjectSelect(w, project_id)
    \/ ProjectCascade(w)

NextCascade ==
    \/ Tick
    \/ TaskStep(1)
    \/ ProjectStep(1)

SpecCascade == Init /\ [][NextCascade]_vars

\* The read-only requests over the later life of the stored task.
QueryStep(w) ==
    \/ \E id \in TaskIds, t1, t2 \in Timestamps : Diff(w, id, t1, t2)
    \/ \E id \in TaskIds, until \in Untils : Replay(w, id, until)

NextQuery ==
    \/ Tick
    \/ Step(1)
    \/ QueryStep(1)

InitQuery == StoredHistory(MaxEdits)

SpecQuery == InitQuery /\ [][NextQuery]_vars

\* Task requests on two workers, and requests for the history of a task.
NextRace ==
    \/ Tick
    \/ \E w \in Workers : TaskStep(w)
    \/ \E w \in Workers, id \in TaskIds : EntityHistory(w, id)

SpecRace == Init /\ [][NextRace]_vars

\* Task requests, the deletion of the project, and requests for the feed.
NextFeed ==
    \/ Tick
    \/ TaskStep(1)
    \/ ProjectStep(1)
    \/ \E limit \in Limits, entity_types \in TypeFilters : Feed(1, limit, entity_types)

SpecFeed == Init /\ [][NextFeed]_vars

\* Every read-only request of routers/events.py next to the task requests.
ReadStep(w) ==
    \/ \E id \in TaskIds : EntityHistory(w, id)
    \/ \E limit \in Limits, entity_types \in TypeFilters : Feed(w, limit, entity_types)

NextRead ==
    \/ Tick
    \/ Step(1)
    \/ QueryStep(1)
    \/ ReadStep(1)

SpecRead == InitQuery /\ [][NextRead]_vars

\* One task request at a time; the write of log_action may fail.
NextFail ==
    \/ Tick
    \/ TaskStep(1)
    \/ LogRaise(1)

SpecFail == Init /\ [][NextFail]_vars

\* A store in which monitor 1 was created and the monitor service has opened
\* incident 1 for it: _handle_incident logs the incident with the fields it
\* inserted, not with the row.
InitIncident ==
    /\ clock = 1
    /\ LET monitor == [id |-> 1, name |-> "M"]
           opened == [monitor_id |-> 1, title |-> "M is down", status |-> "open"]
           created == InsertAuditLog(<<>>,
                          AuditRow(0, "monitor", 1, "create", NULL, monitor, isoformat(0)))
       IN  /\ audit_log = InsertAuditLog(created,
                              AuditRow(0, "incident", 1, "create", NULL, opened,
                                       isoformat(1)))
           /\ db = [t \in Tables |->
                      IF t = "projects" THEN SeedProjects
                      ELSE [i \in TaskIds |->
                              IF i = 1 /\ t = "monitors" THEN monitor
                              ELSE IF i = 1 /\ t = "incidents"
                                   THEN [id |-> 1, monitor_id |-> 1,
                                         title |-> "M is down", status |-> "open",
                                         resolved_at |-> NULL]
                              ELSE NULL]]
    /\ sqlite_sequence = [t \in Tables |-> IF t = "tasks" THEN 0 ELSE 1]
    /\ proc = [w \in Workers |-> Idle]
    /\ restore_commits = 0
    /\ budget = MaxLater

\* The deletion of the monitor and restores of its incident, one at a time.
IncidentStep(w) ==
    \/ \E monitor_id \in TaskIds : MonitorSelect(w, monitor_id)
    \/ MonitorCascade(w)
    \/ \E id \in TaskIds, at \in Timestamps : RestoreReadOf(w, "incident", id, at)
    \/ RestoreSelect(w)
    \/ RestoreWrite(w)
    \/ LogStamp(w)
    \/ LogInsert(w)

NextIncident ==
    \/ Tick
    \/ IncidentStep(1)

SpecIncident == InitIncident /\ [][NextIncident]_vars

\* Task and project requests, and restores of a task or of a project.
NextType ==
    \/ Tick
    \/ TaskStep(1)
    \/ RestoreStep(1)
    \/ ProjectStep(1)
    \/ \E project_id \in ProjectIds : ProjectUpdate(1, project_id, "P")
    \/ \E project_id \in ProjectIds, at \in Timestamps :
          RestoreReadOf(1, "project", project_id, at)

SpecType == Init /\ [][NextType]_vars

\* An incident opened by the monitor service is acknowledged, and its states
\* are compared; its monitor may be deleted and the incident restored.
NextAck ==
    \/ Tick
    \/ IncidentStep(1)
    \/ \E incident_id \in TaskIds : Acknowledge(1, incident_id)
    \/ \E incident_id \in TaskIds, timestamp1, timestamp2 \in Timestamps :
          DiffOf(1, "incident", incident_id, timestamp1, timestamp2)

SpecAck == InitIncident /\ [][NextAck]_vars

\* Task requests on one worker while another compares the state of a task at
\* a timestamp with itself.
NextDiffRace ==
    \/ Tick
    \/ TaskStep(1)
    \/ \E id \in TaskIds, t \in Timestamps : DiffFirst(2, id, t, t)
    \/ DiffSecond(2)

SpecDiffRace == Init /\ [][NextDiffRace]_vars

\* Task requests with copies, project requests, and requests for the whole
\* feed.
NextSummary ==
    \/ Tick
    \/ TaskStep(1)
    \/ \E id \in TaskIds : DuplicateSelect(1, id)
    \/ DuplicateInsert(1)
    \/ ProjectStep(1)
    \/ \E project_id \in ProjectIds : ProjectUpdate(1, project_id, "P")
    \/ Feed(1, MaxLimit, NULL)

SpecSummary == Init /\ [][NextSummary]_vars

\* ------------------------------------------------------------------ claims
\* The records of task `id`, by position in the log.
RecordsOf(id) ==
    {i \in 1..Len(audit_log) :
        audit_log[i].entity_type = "task" /\ audit_log[i].entity_id = id}

Stamp(i) == audit_log[i].timestamp
Before(a, b) == TextLE(a, b) /\ a # b

\* The records of task `id` at or before `t`, and the latest of them by timestamp.
AtOrBefore(id, t) == {i \in RecordsOf(id) : TextLE(Stamp(i), t)}
LatestAt(id, t) ==
    {i \in AtOrBefore(id, t) : \A j \in AtOrBefore(id, t) : TextLE(Stamp(j), Stamp(i))}

\* A state with the deletion marker of a record stamped `t`.
Marked(state, t) == ("_deleted" :> TRUE) @@ ("_deleted_at" :> t) @@ state
HasMarker(state) == "_deleted" \in DOMAIN state

\* The state a record establishes: the pre-delete fields with the marker for a
\* delete, the after snapshot otherwise.
Established(r) ==
    IF r.action = "delete"
    THEN IF r.old_value = NULL THEN NULL ELSE Marked(r.old_value.json, r.timestamp)
    ELSE IF r.new_value = NULL THEN NULL ELSE r.new_value.json

\* A worker holds the answer of a state-at request; with one request at a time
\* the log it was computed on is the current log.
Reads(w) == proc[w].op = "state_at"

\* C1: get_state_at answers from the record of the entity that is greatest in
\* (timestamp, id) order among those at or before t: on equal timestamps the
\* larger id decides.
C1_LatestByTimestampThenId ==
    \A w \in Workers : Reads(w) =>
        LET m == AtOrBefore(proc[w].entity_id, proc[w].at)
        IN  m # {} =>
              \E i \in m :
                /\ \A j \in m : Before(Stamp(j), Stamp(i)) \/ (Stamp(j) = Stamp(i) /\ j <= i)
                /\ proc[w].state = Established(audit_log[i])

\* C2: for an entity whose records carry distinct timestamps, get_state_at(t)
\* is the state established by the record at t_i for every t in [t_i, t_i+1),
\* whatever records of other entities lie in between.
C2_StepFunction ==
    \A w \in Workers : Reads(w) =>
        LET rs == RecordsOf(proc[w].entity_id)
            t == proc[w].at
        IN  (\A i, j \in rs : i # j => Stamp(i) # Stamp(j)) =>
              \A i \in rs :
                (/\ TextLE(Stamp(i), t)
                 /\ \A j \in rs : Before(Stamp(i), Stamp(j)) => Before(t, Stamp(j)))
                => proc[w].state = Established(audit_log[i])

\* A state-at request at a time inside [t1, t2) of an entity with records at
\* t1 < t2, a record of another entity lying between the two in the log.
C2_Witness ==
    \E w \in Workers : Reads(w) /\
        LET rs == RecordsOf(proc[w].entity_id)
        IN  /\ \A i, j \in rs : i # j => Stamp(i) # Stamp(j)
            /\ \E i, k \in rs :
                 /\ TextLE(Stamp(i), proc[w].at)
                 /\ Before(proc[w].at, Stamp(k))
                 /\ \E j \in (i + 1)..(k - 1) : j \notin rs
                 /\ proc[w].state = Established(audit_log[i])
                 /\ proc[w].state # Established(audit_log[k])

C4_NotFoundIffNoRecord ==
    \A w \in Workers : Reads(w) =>
        (proc[w].state = NULL <=> AtOrBefore(proc[w].entity_id, proc[w].at) = {})

\* The step on which worker w's log_action of the given action returns.
Logged(w, action) ==
    /\ proc[w].pc = "insert"
    /\ proc[w].action = action
    /\ proc'[w].pc = "done"
    /\ proc'[w].result = "ok"

\* C5: once log_action(task, id, 'create', after = S) has returned, get_state_at
\* of that entity at the record's timestamp, or at any later time with no other
\* record of the entity in between, returns exactly S.
C5_CreateRoundTrip ==
    [][\A w \in Workers : Logged(w, "create") =>
          \A t \in Timestamps :
            (/\ TextLE(proc[w].timestamp, t)
             /\ \A j \in 1..Len(audit_log) :
                  (audit_log[j].entity_id = proc[w].entity_id
                   /\ TextLE(proc[w].timestamp, audit_log[j].timestamp))
                  => Before(t, audit_log[j].timestamp))
            => get_state_at(audit_log', "task", proc[w].entity_id, t)
                 = {proc[w].new_value}]_vars

\* A create has just been logged and the state at the current time is its snapshot.
C5_Witness ==
    \E w \in Workers :
        /\ proc[w].op = "create" /\ proc[w].result = "ok"
        /\ audit_log # <<>>
        /\ LET r == audit_log[Len(audit_log)]
           IN  /\ r.action = "create"
               /\ r.new_value # NULL
               /\ get_state_at(audit_log, "task", r.entity_id, isoformat(clock))
                    = {r.new_value.json}

\* C6: the log only grows: every record present stays at its place with every
\* field unchanged, through appends, reads and restores, failed or not.
C6_AppendOnly ==
    [][/\ Len(audit_log') >= Len(audit_log)
       /\ \A i \in 1..Len(audit_log) : audit_log'[i] = audit_log[i]]_vars

\* The log holds a restore record after earlier records, and a restore has failed.
C6_Witness ==
    /\ \E i \in 2..Len(audit_log) : audit_log[i].action = "restore"
    /\ \E w \in Workers :
         proc[w].op = "restore"
         /\ proc[w].result \in {"Cannot find entity state at specified timestamp",
                                "Entity was deleted at this timestamp"}

\* C7: when restore_entity(e, T) returns success, get_state_at(e, now) is the
\* state get_state_at(e, T) gave it, internal markers excluded, and the history
\* of e ends with the new 'restore' record.
C7_RestoreClosesLoop ==
    [][\A w \in Workers : Logged(w, "restore") =>
          /\ get_state_at(audit_log', "task", proc[w].entity_id, isoformat(clock'))
               = {[k \in DOMAIN proc[w].state \ {"_deleted", "_deleted_at"} |->
                     proc[w].state[k]]}
          /\ \A h \in get_entity_history(audit_log', "task", proc[w].entity_id) :
               /\ h[Len(h)] = Len(audit_log')
               /\ audit_log'[h[Len(h)]].action = "restore"]_vars

\* C8: a restore whose reconstructed state carries the deletion marker returns
\* the entity-was-deleted failure at once, with every live table and the log
\* as they were.
C8_RestoreRefusesTombstone ==
    [][\A w \in Workers :
          (/\ proc[w].pc = "done"
           /\ proc'[w] # proc[w]
           /\ proc'[w].op = "restore"
           /\ HasMarker(proc'[w].state))
          => /\ proc'[w].pc = "done"
             /\ proc'[w].result = "Entity was deleted at this timestamp"
             /\ db' = db
             /\ audit_log' = audit_log
             /\ restore_commits' = restore_commits]_vars

\* A restore ended with the entity-was-deleted failure and its tombstone.
C8_Witness ==
    \E w \in Workers :
        /\ proc[w].op = "restore"
        /\ proc[w].pc = "done"
        /\ proc[w].result = "Entity was deleted at this timestamp"
        /\ HasMarker(proc[w].state)

\* The number of 'restore' records in the log.
RestoreRecords ==
    Cardinality({i \in 1..Len(audit_log) : audit_log[i].action = "restore"})

\* C9: with no request in progress, the restores written to the live table are
\* exactly the 'restore' records of the log, a worker having died or not.
C9_RestoreAtomic ==
    (\A w \in Workers : proc[w].pc = "done") => restore_commits = RestoreRecords

\* C10: once two concurrent restores of the entity to different times have both
\* succeeded, the live row is the after_state of the last 'restore' record, and
\* the later record's before_state is the state the earlier restore wrote.
C10_RestoresSerialized ==
    (/\ \A w \in Workers :
          proc[w].op = "restore" /\ proc[w].pc = "done" /\ proc[w].result = "ok"
     /\ \E v, w \in Workers : proc[v].at # proc[w].at
     /\ restore_commits = 2
     /\ Len(audit_log) = 4)
    => /\ audit_log[4].new_value = [json |-> db["tasks"][1]]
       /\ audit_log[4].old_value = audit_log[3].new_value

\* C11: with no request in progress, every committed mutation of a task has its
\* record: a live row is the after snapshot of a record of that task, and a
\* task whose row was removed has a 'delete' record, a crash between the steps
\* of the operation notwithstanding.
C11_RecordWithMutation ==
    (\A w \in Workers : proc[w].pc = "done") =>
        \A id \in TaskIds :
            LET row == db["tasks"][id]
            IN  /\ row # NULL =>
                     \E i \in RecordsOf(id) :
                        /\ audit_log[i].action # "delete"
                        /\ audit_log[i].new_value = [json |-> row]
                /\ (row = NULL /\ id <= sqlite_sequence["tasks"]) =>
                     \E i \in RecordsOf(id) : audit_log[i].action = "delete"

\* C12: whenever a log_action call returns, with other calls in progress or not,
\* the log is the log before it plus the call's own record (no row is lost or
\* changed), the new record's id is greater than every id already in the log,
\* and the call returns that id.
C12_ConcurrentAppends ==
    [][\A w \in Workers :
          (proc[w].pc = "insert" /\ proc'[w].pc = "done" /\ proc'[w].result = "ok")
          => /\ Len(audit_log') = Len(audit_log) + 1
             /\ \A i \in 1..Len(audit_log) : audit_log'[i] = audit_log[i]
             /\ LET r == audit_log'[Len(audit_log')]
                IN  /\ r.entity_type = proc[w].entity_type
                    /\ r.entity_id = proc[w].entity_id
                    /\ r.action = proc[w].action
                    /\ r.timestamp = proc[w].timestamp
                    /\ \A i \in 1..Len(audit_log) : audit_log[i].id < r.id
                    /\ proc'[w].lastrowid = r.id]_vars

\* One call has returned the id of the newest record while another call, whose
\* timestamp was taken earlier, has not inserted yet.
C12_Witness ==
    \E v, w \in Workers :
        /\ v # w
        /\ proc[w].pc = "insert"
        /\ proc[v].pc = "done" /\ proc[v].result = "ok"
        /\ audit_log # <<>>
        /\ proc[v].lastrowid = audit_log[Len(audit_log)].id
        /\ Before(proc[w].timestamp, audit_log[Len(audit_log)].timestamp)

\* C13: a successful create, update or delete of a task appends exactly one
\* record for ('task', task_id) with the operation as its action; before_state
\* is null for create and the row before the change otherwise, after_state is
\* null for delete and the row after the change otherwise.
C13_TaskRecords ==
    [][\A w \in Workers :
          LET p == proc[w]
              id == p.entity_id
          IN  p.op \in {"create", "update", "delete"} =>
                /\ (p.pc = "write") => p.old_value = db["tasks"][id]
                /\ (p.pc \in {"write", "readback", "log"} /\ proc'[w].pc # "done")
                     => /\ audit_log' = audit_log
                        /\ proc'[w].old_value = p.old_value
                /\ (p.pc = "insert" /\ proc'[w].pc = "done" /\ proc'[w].result = "ok")
                     => /\ Len(audit_log') = Len(audit_log) + 1
                        /\ LET r == audit_log'[Len(audit_log')]
                           IN  /\ r.entity_type = "task"
                               /\ r.entity_id = id
                               /\ r.action = p.op
                               /\ r.old_value = IF p.op = "create" THEN NULL
                                                ELSE [json |-> p.old_value]
                               /\ r.new_value = IF p.op = "delete" THEN NULL
                                                ELSE [json |-> db["tasks"][id]]]_vars

\* An update that changed the title and a delete have both been recorded.
C13_Witness ==
    /\ \E w \in Workers : proc[w].op = "delete" /\ proc[w].result = "ok"
    /\ \E i, j \in 1..Len(audit_log) :
         /\ audit_log[i].action = "update"
         /\ audit_log[i].old_value # audit_log[i].new_value
         /\ audit_log[j].action = "delete"
         /\ audit_log[j].entity_id = audit_log[i].entity_id
         /\ audit_log[j].old_value = audit_log[i].new_value

\* C14: the after_state of every record appended with an action other than
\* 'delete' is the complete live row of the entity as it stands right after
\* the change, whichever operation produced the record.
C14_CompleteSnapshot ==
    [][\A w \in Workers :
          (/\ proc[w].pc = "insert"
           /\ proc[w].action # "delete"
           /\ proc'[w].pc = "done" /\ proc'[w].result = "ok")
          => audit_log'[Len(audit_log')].new_value
               = [json |-> db[table_map[proc[w].entity_type]][proc[w].entity_id]]]_vars

\* C15: with no request in progress, for every task that has a record the
\* state reconstructed at the current time is the task's live row when the row
\* exists, and a tombstone when it does not.
C15_GapFreeHistory ==
    (\A w \in Workers : proc[w].pc = "done") =>
        \A id \in TaskIds : RecordsOf(id) # {} =>
            LET states == get_state_at(audit_log, "task", id, isoformat(clock))
                row == db["tasks"][id]
            IN  IF row # NULL THEN row \in states
                ELSE \E s \in states : s # NULL /\ HasMarker(s)

Swapped(forth, back) ==
    /\ DOMAIN back = DOMAIN forth
    /\ \A key \in DOMAIN forth :
         /\ back[key].from = forth[key].to
         /\ back[key].to = forth[key].from

\* C17: for every entity and timestamps t1, t2, diff_states(e, t2, t1) has the
\* same set of changed keys as diff_states(e, t1, t2), and for each key the
\* 'from' and 'to' values are swapped (an error one way is an error the other
\* way); the answer a diff request holds is mirrored by the reverse diff.
C17_DiffSymmetry ==
    /\ \A id \in TaskIds, t1, t2 \in Timestamps, plan \in Plans :
         LET forth == diff_states(audit_log, "task", id, t1, t2, plan)
             back == diff_states(audit_log, "task", id, t2, t1, plan)
         IN  IF "error" \in DOMAIN forth THEN back = forth
             ELSE /\ "error" \notin DOMAIN back
                  /\ Swapped(forth.changes, back.changes)
    /\ \A w \in Workers :
         (proc[w].op = "diff" /\ "changes" \in DOMAIN proc[w].state) =>
           \E plan \in Plans :
              LET back == diff_states(audit_log, "task", proc[w].entity_id,
                                      proc[w].state.timestamp2,
                                      proc[w].state.timestamp1, plan)
              IN  /\ "error" \notin DOMAIN back
                  /\ Swapped(proc[w].state.changes, back.changes)

\* A diff between two different timestamps has been answered with a change of
\* a field both states carry and a field only one of them carries.
C17_Witness ==
    /\ proc[1].op = "diff"
    /\ "changes" \in DOMAIN proc[1].state
    /\ proc[1].state.timestamp1 # proc[1].state.timestamp2
    /\ \E key \in DOMAIN proc[1].state.changes :
         /\ proc[1].state.changes[key].from # NULL
         /\ proc[1].state.changes[key].to # NULL
    /\ \E key \in DOMAIN proc[1].state.changes :
         proc[1].state.changes[key].to = NULL

\* The change map of a diff between no state and `state`: every field of
\* `state` that holds a value, null on the side where the entity has no state.
AllFields(state, missing) ==
    [key \in {k \in DOMAIN state : ~IsNone(state, k)} |->
        IF missing = "from" THEN [from |-> NULL, to |-> [value |-> state[key]]]
        ELSE [from |-> [value |-> state[key]], to |-> NULL]]

\* C18 as stated: if the entity has a state at exactly one of the two
\* timestamps, diff_states returns an empty change map and no error; if it has
\* a state at neither, the result is the error.
C18_AsStated ==
    \A id \in TaskIds, t1, t2 \in Timestamps, plan \in Plans :
       LET state1 == state_at(audit_log, "task", id, t1, plan)
           state2 == state_at(audit_log, "task", id, t2, plan)
           result == diff_states(audit_log, "task", id, t1, t2, plan)
       IN  /\ Truthy(state1) # Truthy(state2) =>
                "error" \notin DOMAIN result /\ result.changes = <<>>
           /\ ~Truthy(state1) /\ ~Truthy(state2) => "error" \in DOMAIN result

\* C18, amended: if the entity has a state at exactly one of the two
\* timestamps, diff_states returns no error and a change map that lists every
\* field of that state, with 'from' null when the state is missing at the
\* first timestamp and 'to' null when it is missing at the second; if it has a
\* state at neither, the result is the error and carries no change map.
C18_DiffOnMissing ==
    /\ \A id \in TaskIds, t1, t2 \in Timestamps, plan \in Plans :
         LET state1 == state_at(audit_log, "task", id, t1, plan)
             state2 == state_at(audit_log, "task", id, t2, plan)
             result == diff_states(audit_log, "task", id, t1, t2, plan)
         IN  /\ ~Truthy(state1) /\ Truthy(state2) =>
                  /\ "error" \notin DOMAIN result
                  /\ result.changes = AllFields(state2, "from")
             /\ Truthy(state1) /\ ~Truthy(state2) =>
                  /\ "error" \notin DOMAIN result
                  /\ result.changes = AllFields(state1, "to")
             /\ ~Truthy(state1) /\ ~Truthy(state2) =>
                  /\ "error" \in DOMAIN result
                  /\ "changes" \notin DOMAIN result
    /\ \A w \in Workers :
         (proc[w].op = "diff" /\ "changes" \in DOMAIN proc[w].state) =>
           LET state1 == proc[w].state.state_at_t1
               state2 == proc[w].state.state_at_t2
           IN  /\ Truthy(state1) \/ Truthy(state2)
               /\ ~Truthy(state1) => proc[w].state.changes = AllFields(state2, "from")
               /\ ~Truthy(state2) => proc[w].state.changes = AllFields(state1, "to")

\* A diff has been answered for a task that has no state at the first
\* timestamp and a state at the second.
C18_Witness ==
    /\ proc[1].op = "diff"
    /\ "changes" \in DOMAIN proc[1].state
    /\ proc[1].state.state_at_t1 = NULL
    /\ Truthy(proc[1].state.state_at_t2)
    /\ proc[1].state.changes # <<>>
    /\ RecordsOf(proc[1].entity_id) # {}

\* after_state of a history record as a set of fields, none when it is null.
AfterFields(record) == IF Truthy(record.new_value) THEN record.new_value ELSE <<>>

\* `after` is `before` with the fields of `fields` merged in.
Merged(before, fields, after) ==
    /\ DOMAIN after = DOMAIN before \cup DOMAIN fields
    /\ \A k \in DOMAIN fields : after[k] = fields[k]
    /\ \A k \in DOMAIN before \ DOMAIN fields : after[k] = before[k]

\* C19: replay_events yields exactly one (record, state_after) pair per record
\* of the entity, in history order; starting from the empty state, a 'create'
\* record replaces the running state with its after_state, an 'update' record
\* merges its after_state fields into the running state (fields absent from
\* after_state keep their value), and a 'delete' record sets _deleted in the
\* running state and keeps every previous field; after create-then-update the
\* last state_after carries the updated values.
C19_ReplayFold ==
    /\ \A id \in TaskIds, plan \in Plans :
         LET history == History(audit_log, "task", id, plan)
             pairs == replay_events(audit_log, "task", id, NULL, plan)
         IN  /\ Len(pairs) = Cardinality(RecordsOf(id))
             /\ \A n \in 1..Len(pairs) :
                  LET record == history[n]
                      before == IF n = 1 THEN <<>> ELSE pairs[n - 1].state_after
                      after == pairs[n].state_after
                  IN  /\ pairs[n].event.id = record.id
                      /\ record.action = "create" => after = AfterFields(record)
                      /\ record.action = "update" =>
                           Merged(before, AfterFields(record), after)
                      /\ record.action = "delete" =>
                           Merged(before, [k \in {"_deleted"} |-> TRUE], after)
                      /\ (/\ n > 1
                          /\ history[n - 1].action = "create"
                          /\ record.action = "update") =>
                           \A k \in DOMAIN AfterFields(record) :
                              after[k] = record.new_value[k]
    /\ \A w \in Workers :
         (proc[w].op = "replay" /\ proc[w].result = "ok"
            /\ proc[w].state.until = NULL) =>
           /\ proc[w].state.replayed_events = Cardinality(RecordsOf(proc[w].entity_id))
           /\ \E plan \in Plans :
                LET pairs == replay_events(audit_log, "task", proc[w].entity_id,
                                           NULL, plan)
                IN  /\ Len(proc[w].state.replay) = Len(pairs)
                    /\ \A n \in 1..Len(pairs) :
                         /\ proc[w].state.replay[n].event.id = pairs[n].event.id
                         /\ proc[w].state.replay[n].state_after = pairs[n].state_after
                    /\ proc[w].state.final_state = pairs[Len(pairs)].state_after

\* An unbounded replay has been answered for a task that was created, updated
\* to another title and then deleted: three pairs, the second carrying the
\* updated title, the last the marker and the updated title.
C19_Witness ==
    /\ proc[1].op = "replay" /\ proc[1].result = "ok"
    /\ proc[1].state.until = NULL
    /\ proc[1].state.replayed_events = 3
    /\ proc[1].state.replay[1].event.action = "create"
    /\ proc[1].state.replay[2].event.action = "update"
    /\ proc[1].state.replay[3].event.action = "delete"
    /\ proc[1].state.replay[1].state_after.title = "A"
    /\ proc[1].state.replay[2].state_after.title = "B"
    /\ proc[1].state.final_state = [id |-> 1, title |-> "B", _deleted |-> TRUE]

\* C20: replay_events(e, until = u) yields pairs for exactly the records of the
\* entity with timestamp <= u, the sequence it yields is a prefix of the
\* sequence the unbounded replay of the same log yields, and a replay that
\* has been answered is the sequence a second replay of the unchanged log
\* yields.  The sequences are the lists the replay route collects.
C20_BoundedReplay ==
    /\ \A id \in TaskIds, u \in Timestamps, plan \in Plans :
         LET bounded == replay_events(audit_log, "task", id, [text |-> u], plan)
             full == replay_events(audit_log, "task", id, NULL, plan)
         IN  /\ Len(bounded) = Cardinality({i \in RecordsOf(id) : TextLE(Stamp(i), u)})
             /\ {bounded[n].event.id : n \in 1..Len(bounded)}
                  = {audit_log[i].id : i \in {j \in RecordsOf(id) : TextLE(Stamp(j), u)}}
             /\ Len(bounded) <= Len(full)
             /\ \A n \in 1..Len(bounded) : bounded[n] = full[n]
    /\ \A w \in Workers :
         (proc[w].op = "replay" /\ proc[w].result = "ok") =>
           \E plan \in Plans :
              proc[w].state.replay =
                replay_events(audit_log, "task", proc[w].entity_id,
                              proc[w].state.until, plan)

\* C21: get_entity_history(entity_type, entity_id) returns every record of that
\* entity and no record of any other entity, ordered ascending by
\* (timestamp, id); the history of an entity that was created and then mutated
\* n more times has n + 1 records, the create first.
C21_EntityHistory ==
    \A id \in TaskIds, plan \in Plans :
       LET history == History(audit_log, "task", id, plan)
       IN  /\ Len(history) = Cardinality(RecordsOf(id))
           /\ {history[n].id : n \in 1..Len(history)}
                = {audit_log[i].id : i \in RecordsOf(id)}
           /\ \A a, b \in 1..Len(history) :
                a < b => \/ Before(history[a].timestamp, history[b].timestamp)
                         \/ /\ history[a].timestamp = history[b].timestamp
                            /\ history[a].id < history[b].id
           /\ (\E i \in RecordsOf(id) : audit_log[i].action = "create") =>
                history[1].action = "create"

\* The log rows a feed request with this filter selects from.
FeedRows(entity_types) ==
    {i \in 1..Len(audit_log) :
        entity_types # NULL => audit_log[i].entity_type \in entity_types.list}

\* The feed lists the `count` most recent rows of `rows`, most recent first,
\* each summary carrying the id, entity_type, entity_id, action and timestamp
\* of its row.
MostRecent(feed, rows, count) ==
    LET shown == {i \in rows : \E n \in 1..Len(feed) : feed[n].id = audit_log[i].id}
    IN  /\ Len(feed) = count
        /\ Cardinality(shown) = count
        /\ \A a, b \in 1..Len(feed) :
             a < b => TextLE(feed[b].timestamp, feed[a].timestamp)
        /\ \A i \in shown, j \in rows \ shown : TextLE(Stamp(j), Stamp(i))
        /\ \A n \in 1..Len(feed) : \E i \in rows :
             /\ feed[n].id = audit_log[i].id
             /\ feed[n].entity_type = audit_log[i].entity_type
             /\ feed[n].entity_id = audit_log[i].entity_id
             /\ feed[n].action = audit_log[i].action
             /\ feed[n].timestamp = audit_log[i].timestamp

\* C22: get_activity_feed(limit, entity_types) returns at most limit summaries
\* (none for a limit below one), most recent first, which are the limit most
\* recent records of the log among those whose entity_type is in the filter
\* (all records without a filter); each summary carries the record's id,
\* entity_type, entity_id, action and timestamp.
C22_ActivityFeed ==
    \A limit \in Limits, entity_types \in TypeFilters, plan \in Plans :
       LET feed == get_activity_feed(audit_log, limit, entity_types, plan)
           rows == FeedRows(entity_types)
           most == IF limit < 0 THEN 0 ELSE limit
       IN  /\ Len(feed) <= most
           /\ MostRecent(feed, rows,
                         IF Cardinality(rows) < most THEN Cardinality(rows) ELSE most)

\* The operations of a read-only request.
ReadOps == {"history", "state_at", "diff", "replay", "feed"}

\* Worker w has just answered a read-only request.
Answered(w) == proc'[w] # proc[w] /\ proc'[w].op \in ReadOps

Stored(snapshot) == IF snapshot = NULL THEN NULL ELSE [json |-> snapshot]

\* C24: log_action stamps its record with the time of the call; when it
\* returns, the log is the log before plus exactly one record carrying the
\* given entity_type, entity_id, action, before and after snapshots, that
\* timestamp and an identifier no earlier record has, and the call returns that
\* identifier; when the storage write fails the call does not return normally
\* (the error reaches the caller) and the log is as it was.
C24_LogAction ==
    [][\A w \in Workers :
          /\ (proc[w].pc = "log" /\ proc'[w].pc = "insert") =>
                proc'[w].timestamp = isoformat(clock)
          /\ (proc[w].pc = "insert" /\ proc'[w].pc = "done") =>
                IF proc'[w].result = "ok"
                THEN /\ Len(audit_log') = Len(audit_log) + 1
                     /\ \A i \in 1..Len(audit_log) : audit_log'[i] = audit_log[i]
                     /\ LET r == audit_log'[Len(audit_log')]
                        IN  /\ r.entity_type = proc[w].entity_type
                            /\ r.entity_id = proc[w].entity_id
                            /\ r.action = proc[w].action
                            /\ r.old_value = Stored(proc[w].old_value)
                            /\ r.new_value = Stored(proc[w].new_value)
                            /\ r.timestamp = proc[w].timestamp
                            /\ \A i \in 1..Len(audit_log) : audit_log[i].id # r.id
                            /\ proc'[w].lastrowid = r.id
                ELSE /\ proc'[w].result = "500"
                     /\ audit_log' = audit_log]_vars

\* A call of log_action has failed after an earlier call had appended its
\* record: the failed update left the log with the one record of the create.
C24_Witness ==
    /\ proc[1].op = "update" /\ proc[1].result = "500"
    /\ Len(audit_log) = 1
    /\ audit_log[1].action = "create"
    /\ db["tasks"][1] # NULL
    /\ [json |-> db["tasks"][1]] # audit_log[1].new_value

\* C25: when restore_entity succeeds, the live table holds exactly one row
\* with the entity's id and that row carries the restored values: a row that
\* existed was overwritten and kept its id, a row that did not exist was
\* inserted under the original id.
C25_RestoreUpsert ==
    [][\A w \in Workers : Logged(w, "restore") =>
          LET row == db'[table_map[proc[w].entity_type]][proc[w].entity_id]
          IN  /\ row # NULL
              /\ row.id = proc[w].entity_id
              /\ \A k \in DOMAIN proc[w].new_value : row[k] = proc[w].new_value[k]]_vars

\* C26: the record a successful restore_entity appends has action 'restore',
\* before_state equal to the live row as it was immediately before the
\* restore's write (null when there was none) and after_state equal to the
\* restored state without the fields whose key starts with '_'.
C26_RestoreRecord ==
    [][\A w \in Workers :
          /\ (proc[w].op = "restore" /\ proc[w].pc = "write" /\ proc'[w].pc = "log") =>
                /\ proc[w].old_value = db[table_map[proc[w].entity_type]][proc[w].entity_id]
                /\ proc'[w].old_value = proc[w].old_value
          /\ (proc[w].op = "restore" /\ proc[w].pc = "insert" /\ proc'[w].pc = "done"
                /\ proc'[w].result = "ok") =>
                LET r == audit_log'[Len(audit_log')]
                    restored == proc[w].state
                IN  /\ Len(audit_log') = Len(audit_log) + 1
                    /\ r.entity_type = proc[w].entity_type
                    /\ r.entity_id = proc[w].entity_id
                    /\ r.action = "restore"
                    /\ r.old_value = Stored(proc[w].old_value)
                    /\ r.new_value =
                         [json |-> [k \in {x \in DOMAIN restored : ~StartsWithUnderscore(x)}
                                      |-> restored[k]]]]_vars

\* A restore has found a live row, overwritten it with other values and
\* appended its record: before_state is the row it found, the live row is now
\* the after_state.
C26_Witness ==
    /\ proc[1].op = "restore" /\ proc[1].pc = "done" /\ proc[1].result = "ok"
    /\ LET r == audit_log[Len(audit_log)]
       IN  /\ r.action = "restore"
           /\ r.old_value # NULL
           /\ r.old_value # r.new_value
           /\ r.new_value = [json |-> db["tasks"][r.entity_id]]

\* C27: a restore returns the not-found failure when the entity has no record
\* at or before to_timestamp; it returns the unknown-entity-type failure exactly
\* when a state was found, the state is not a deleted one and entity_type is
\* none of task, column, monitor, incident; in both cases the request ends
\* with every live table and the log as they were.
EntityRecordsUntil(entity_type, entity_id, t) ==
    {i \in 1..Len(audit_log) :
        /\ audit_log[i].entity_type = entity_type
        /\ audit_log[i].entity_id = entity_id
        /\ TextLE(audit_log[i].timestamp, t)}

RestorableTypes == {"task", "column", "monitor", "incident"}

C27_FailingRestores ==
    [][\A w \in Workers :
          (proc[w].pc = "done" /\ proc'[w] # proc[w] /\ proc'[w].op = "restore") =>
             LET p == proc'[w]
                 found == p.state # NULL /\ DOMAIN p.state # {}
                 failed == p.pc = "done" /\ p.result \in {ErrNotFound, ErrUnknownType}
             IN  /\ EntityRecordsUntil(p.entity_type, p.entity_id, p.at) = {}
                       => (p.pc = "done" /\ p.result = ErrNotFound)
                 /\ (p.pc = "done" /\ p.result = ErrUnknownType)
                       <=> (/\ found
                            /\ "_deleted" \notin DOMAIN p.state
                            /\ p.entity_type \notin RestorableTypes)
                 /\ failed => /\ db' = db
                              /\ audit_log' = audit_log
                              /\ sqlite_sequence' = sqlite_sequence]_vars

\* The unknown-type failure has been returned for the project, whose state at
\* the requested time was found and is not a deleted one; its live row stands.
C27_Witness ==
    /\ proc[1].op = "restore" /\ proc[1].pc = "done"
    /\ proc[1].entity_type = "project"
    /\ proc[1].result = ErrUnknownType
    /\ proc[1].state = [id |-> 1, name |-> "P"]
    /\ db["projects"][1] = [id |-> 1, name |-> "P"]

\* C28: the change map of diff_states(e, t1, t2) has an entry for exactly
\* those keys of the union of the two reconstructed states whose values
\* differ, a key present in one state and absent from the other counting as
\* differing whatever its value (null included), and no entry for a key whose
\* value is the same in both.
Differs(d1, d2, key) ==
    \/ (key \in DOMAIN d1) # (key \in DOMAIN d2)
    \/ /\ key \in DOMAIN d1 \cap DOMAIN d2
       /\ IsNone(d1, key) # IsNone(d2, key)
    \/ /\ key \in DOMAIN d1 \cap DOMAIN d2
       /\ ~IsNone(d1, key) /\ ~IsNone(d2, key)
       /\ d1[key] # d2[key]

C28_DiffContent ==
    \A w \in Workers :
       (proc[w].op = "diff" /\ "changes" \in DOMAIN proc[w].state) =>
          LET d1 == OrEmpty(proc[w].state.state_at_t1)
              d2 == OrEmpty(proc[w].state.state_at_t2)
          IN  \A key \in DOMAIN d1 \cup DOMAIN d2 :
                 key \in DOMAIN proc[w].state.changes <=> Differs(d1, d2, key)

\* C29: in replay_events a record whose action is none of 'create', 'update',
\* 'delete' (a restore, a duplicate) still yields a pair, and the state_after
\* of that pair equals the state_after of the preceding pair (the empty
\* starting state when it is the first): its after_state is not folded in.
CanonicalActions == {"create", "update", "delete"}

C29_OtherActions ==
    /\ \A id \in TaskIds, plan \in Plans :
         LET history == History(audit_log, "task", id, plan)
             pairs == replay_events(audit_log, "task", id, NULL, plan)
         IN  \A n \in 1..Len(history) :
                history[n].action \notin CanonicalActions =>
                   /\ n <= Len(pairs)
                   /\ pairs[n].event.id = history[n].id
                   /\ pairs[n].state_after =
                        IF n = 1 THEN <<>> ELSE pairs[n - 1].state_after
    /\ \A w \in Workers :
         (proc[w].op = "replay" /\ proc[w].result = "ok") =>
            \A n \in 1..Len(proc[w].state.replay) :
               proc[w].state.replay[n].event.action \notin CanonicalActions =>
                  proc[w].state.replay[n].state_after =
                     IF n = 1 THEN <<>> ELSE proc[w].state.replay[n - 1].state_after

\* A replay has been answered whose last pair is that of a 'restore' record:
\* the record brought the title back to another value, the pair still carries
\* the state of the pair before it.
C29_Witness ==
    /\ proc[1].op = "replay" /\ proc[1].result = "ok"
    /\ LET replay == proc[1].state.replay
           last == Len(replay)
       IN  /\ last > 1
           /\ replay[last].event.action = "restore"
           /\ replay[last].event.new_value.title # replay[last].state_after.title
           /\ replay[last].state_after = replay[last - 1].state_after

\* C30: for a task whose every non-delete record carries a complete snapshot,
\* the state_after of each pair yielded by replay_events equals, up to the
\* deletion-marker fields, a state get_state_at returns at that record's
\* timestamp, whatever mix of create, update, delete, restore and other
\* records the history is made of.
WithoutMarkers(state) ==
    IF ~Truthy(state) THEN <<>>
    ELSE [k \in {x \in DOMAIN state : ~StartsWithUnderscore(x)} |-> state[k]]

CompleteSnapshots(history) ==
    \A n \in 1..Len(history) :
       history[n].action # "delete" =>
          /\ Truthy(history[n].new_value)
          /\ DOMAIN history[n].new_value = Columns

C30_ReplayAgrees ==
    \A id \in TaskIds, plan \in Plans :
       LET history == History(audit_log, "task", id, plan)
           pairs == replay_events(audit_log, "task", id, NULL, plan)
       IN  CompleteSnapshots(history) =>
              \A n \in 1..Len(pairs) :
                 \E state \in get_state_at(audit_log, "task", id, pairs[n].event.timestamp) :
                    WithoutMarkers(pairs[n].state_after) = WithoutMarkers(state)

\* C31: once a replay has been consumed to the end, the record of every pair
\* it yielded (the after_state of the 'create' record in particular) is the
\* stored record as get_entity_history returns it, and the state_after of a
\* pair is what it was when the pair was yielded, whatever records were
\* processed after it.
C31_ReplayKeepsRecords ==
    \A id \in TaskIds, until \in Untils, plan \in Plans :
       LET history == History(audit_log, "task", id, plan)
           pairs == replay_events(audit_log, "task", id, until, plan)
       IN  \A n \in 1..Len(pairs) :
              /\ pairs[n].event = history[n]
              /\ pairs[n].state_after =
                   replay_loop(history, until, n).pairs[n].state_after

\* C32: diff_states reads both of its states from the same prefix of the log:
\* whatever is appended while it runs, the change map of diff_states(e, t, t)
\* is empty, for t at or after the current time as well.
C32_StablePrefix ==
    \A w \in Workers :
       (/\ proc[w].op = "diff" /\ proc[w].pc = "done"
        /\ "changes" \in DOMAIN proc[w].state
        /\ proc[w].state.timestamp1 = proc[w].state.timestamp2) =>
          /\ proc[w].state.changes = <<>>
          /\ proc[w].state.state_at_t1 = proc[w].state.state_at_t2

\* C33: whatever the interleaving of two mutating operations on the same
\* task, once both have completed the after_state of the task's last record
\* in (timestamp, id) order is the live row (null when there is none), and the
\* before_state of each record is the after_state of the record before it.
C33_ConcurrentMutations ==
    (\A w \in Workers : proc[w].pc = "done") =>
       \A id \in TaskIds :
          LET history == History(audit_log, "task", id, "rowid_asc")
          IN  /\ history # <<>> =>
                   history[Len(history)].new_value = db["tasks"][id]
              /\ \A n \in 2..Len(history) :
                   history[n].old_value = history[n - 1].new_value

\* C34: of any two records in the log, the one with the smaller id has a
\* timestamp not later than the other's, whatever the interleaving of the
\* log_action calls that appended them.
C34_TimestampFollowsId ==
    \A i, j \in 1..Len(audit_log) :
       audit_log[i].id < audit_log[j].id =>
          TextLE(audit_log[i].timestamp, audit_log[j].timestamp)

\* C35: the past is stable: what get_state_at(e, t) returns for a t not later
\* than the clock is what every later evaluation returns, whatever is
\* appended in between; no step changes the result for such a t.
C35_PastIsStable ==
    [][\A id \in TaskIds, t \in Timestamps :
          TextLE(t, isoformat(clock)) =>
             get_state_at(audit_log', "task", id, t) = get_state_at(audit_log, "task", id, t)]_vars

\* C36: a successful restore_entity(type, id, T) leaves every live row other
\* than the row `id` of the type's table as it was and appends no record of
\* another entity (which is what makes restores of different entities
\* commute): its write changes at most that row, its record is a record of
\* (type, id).
C36_RestoreFrame ==
    [][\A w \in Workers :
          /\ (proc[w].op = "restore" /\ proc[w].pc = "write" /\ proc'[w].pc = "log") =>
                \A t \in Tables, i \in TaskIds :
                   (t # table_map[proc[w].entity_type] \/ i # proc[w].entity_id) =>
                      (i \in DOMAIN db[t] => db'[t][i] = db[t][i])
          /\ (proc[w].op = "restore" /\ proc[w].pc = "insert" /\ proc'[w].pc = "done") =>
                /\ db' = db
                /\ Len(audit_log') <= Len(audit_log) + 1
                /\ \A n \in Len(audit_log) + 1..Len(audit_log') :
                      /\ audit_log'[n].entity_type = proc[w].entity_type
                      /\ audit_log'[n].entity_id = proc[w].entity_id]_vars

\* C37: when no record of the entity exists at or before the requested time,
\* the state-at route and the restore route both report not found (404), and
\* for the restore that outcome is distinct from the one reported for a
\* deleted target and for a target of unknown type.
C37_NotFoundOutcome ==
    \A w \in Workers :
       (/\ proc[w].pc = "done"
        /\ proc[w].op \in {"state_at", "restore"}
        /\ EntityRecordsUntil(proc[w].entity_type, proc[w].entity_id, proc[w].at) = {}) =>
          /\ proc[w].op = "state_at" => proc[w].result = "404"
          /\ proc[w].op = "restore" =>
                /\ restore_response(proc[w].result).status = "404"
                /\ restore_response(proc[w].result) # restore_response(ErrDeleted)
                /\ restore_response(proc[w].result) # restore_response(ErrUnknownType)

\* The name a summary of log row i is to carry when it is looked for in the
\* snapshot `data` (none when data is null): the title, else the name, else
\* the entity id.
NameFrom(data, entity_id) ==
    IF data # NULL /\ "title" \in DOMAIN data.json /\ data.json.title # ""
    THEN [text |-> data.json.title]
    ELSE IF data # NULL /\ "name" \in DOMAIN data.json /\ data.json.name # ""
    THEN [text |-> data.json.name]
    ELSE [number |-> entity_id]

\* The summaries of the whole feed, by log row.
SummaryOf(i, plan) ==
    LET feed == get_activity_feed(audit_log, MaxLimit, NULL, plan)
        n == CHOOSE k \in 1..Len(feed) : feed[k].id = audit_log[i].id
    IN  feed[n].summary

\* C38 as stated: the name of a summary is after_state.title if present,
\* otherwise after_state.name, otherwise the entity id, so that a record whose
\* after_state is null is summarized with the entity id.
C38_AsStated ==
    \A i \in 1..Len(audit_log), plan \in Plans :
       SummaryOf(i, plan).name = NameFrom(audit_log[i].new_value, audit_log[i].entity_id)

\* C38, amended: the name is taken from after_state, or from before_state when
\* after_state is null (a delete): its title if present and not empty,
\* otherwise its name, otherwise the entity id; the entity id also when both
\* snapshots are null.
C38_SummaryName ==
    /\ \A i \in 1..Len(audit_log), plan \in Plans :
         LET row == audit_log[i]
         IN  SummaryOf(i, plan).name =
                NameFrom(IF row.new_value # NULL THEN row.new_value ELSE row.old_value,
                         row.entity_id)
    /\ \A w \in Workers :
         (proc[w].op = "feed" /\ proc[w].result = "ok") =>
            \A n \in 1..Len(proc[w].state.feed) :
               \E i \in 1..Len(audit_log) :
                  /\ audit_log[i].id = proc[w].state.feed[n].id
                  /\ proc[w].state.feed[n].summary.name =
                       NameFrom(IF audit_log[i].new_value # NULL
                                THEN audit_log[i].new_value ELSE audit_log[i].old_value,
                                audit_log[i].entity_id)

\* A feed has been answered that lists the delete record of a task under the
\* task's title and the record of a copy, which has no title in its
\* snapshots, under the entity id.
C38_Witness ==
    /\ proc[1].op = "feed" /\ proc[1].result = "ok"
    /\ \E a, b \in 1..Len(proc[1].state.feed) :
         /\ proc[1].state.feed[a].action = "delete"
         /\ proc[1].state.feed[a].entity_type = "task"
         /\ proc[1].state.feed[a].summary.name = [text |-> "A"]
         /\ proc[1].state.feed[b].action = "duplicate"
         /\ proc[1].state.feed[b].summary.name = [number |-> proc[1].state.feed[b].entity_id]

====
